---- MODULE Spec2Model ----
(***************************************************************************)
(* hotlog: verbosity-tiered structured logging with a transient "live"     *)
(* display.  The model follows src/hotlog/__init__.py: the module globals  *)
(* (_VERBOSITY_LEVEL, _MATCHERS, _LIVE_CONTEXT, _LIVE_MESSAGES), the       *)
(* renderer cli_renderer, configure_logging, live_logging and LiveLogger.  *)
(* The verbosity resolver (hotlog.verbosity) and maybe_live_logging are    *)
(* not part of that file; they are described from the specification's     *)
(* sections 4.4 and 4.5 and the tests that use them.                       *)
(*                                                                         *)
(* Representation.                                                         *)
(*  - A field key is a sequence of tokens: "_verbose_x" is                 *)
(*    <<"_verbose_", "x">>, "x" is <<"x">>, "_verbose_" is <<"_verbose_">> *)
(*    and "" is << >>.  str.startswith(prefix) is "the first token is the  *)
(*    prefix", str.removeprefix(prefix) is Tail.                           *)
(*  - An event dictionary (a Python dict, insertion ordered, unique keys)  *)
(*    is a sequence of <<key, value>> pairs with distinct keys.            *)
(*  - Rendered text is a tuple that keeps the parts of the f-string.       *)
(*  - The permanent output is the sequence of console.print calls; the     *)
(*    transient region (rich.live.Live, transient=True) is part of the     *)
(*    live context and vanishes with it.                                   *)
(***************************************************************************)
EXTENDS Integers, Sequences, FiniteSets, TLC

VARIABLES
    verbosity,      \* _VERBOSITY_LEVEL
    matchers,       \* _MATCHERS
    liveContext,    \* _LIVE_CONTEXT: None or the Live display of a session
    liveMessages,   \* _LIVE_MESSAGES
    rootLevel,      \* level of the stdlib root logger
    configured,     \* structlog.configure has installed the processor chain
    sessions,       \* the open live_logging scopes, outermost first
    out,            \* permanent output: one entry per console.print
    lastOp          \* the operation that led to this state, its outcome, and
                    \* the matchers argument of the latest configure_logging

vars == <<verbosity, matchers, liveContext, liveMessages, rootLevel,
          configured, sessions, out, lastOp>>

\* _LIVE_CONTEXT = None: no session owns the live display
None == [owner |-> 0, shown |-> << >>]

\* log_msg = None: no matcher has supplied text
NoText == << >>

----------------------------------------------------------------------------
(* Keys and dictionaries *)

K(tok) == <<tok>>
PK(prefix, tok) == <<prefix, tok>>

\* str.startswith
startswith(key, prefix) == Len(key) >= 1 /\ key[1] = prefix

\* str.removeprefix, applied where startswith holds
removeprefix(key, prefix) == IF startswith(key, prefix) THEN Tail(key) ELSE key

Keys(d) == { d[i][1] : i \in 1..Len(d) }

\* key in d
Has(d, k) == \E i \in 1..Len(d) : d[i][1] = k

\* d[k], for k in d
Get(d, k) == d[CHOOSE i \in 1..Len(d) : d[i][1] = k][2]

\* d.pop(k, default): the value
PopValue(d, k, default) == IF Has(d, k) THEN Get(d, k) ELSE default

\* d.pop(k, default): the dictionary left
PopRest(d, k) == SelectSeq(d, LAMBDA p : p[1] # k)

\* Mutant of Put: a key already present keeps its value
PutFirstWins(d, k, v) ==
    IF Has(d, k) THEN d ELSE Append(d, <<k, v>>)

\* d[k] = v: an existing key keeps its position, a new key goes last
Put(d, k, v) ==
    IF Has(d, k)
    THEN [i \in 1..Len(d) |-> IF d[i][1] = k THEN <<k, v>> ELSE d[i]]
    ELSE Append(d, <<k, v>>)

\* A well-formed dictionary: no key twice
IsDict(d) == \A i, j \in 1..Len(d) : d[i][1] = d[j][1] => i = j

----------------------------------------------------------------------------
(* Context filter: filter_context_by_prefix, strip_prefixes_from_keys *)

DEFAULT_PREFIXES == <<"_verbose_", "_debug_", "_perf_", "_security_">>

\* Mutant of FilterSkips: level 1 filters like level 0
FilterSkipsVerboseAtOne(key) ==
    IF verbosity \in {0, 1}
    THEN startswith(key, "_verbose_") \/ startswith(key, "_debug_")
    ELSE FALSE

\* Mutant of FilterSkips: level 0 drops the `_perf_` fields too
FilterSkipsPerfAtZero(key) ==
    IF verbosity = 0
    THEN \/ startswith(key, "_verbose_") \/ startswith(key, "_debug_")
         \/ startswith(key, "_perf_")
    ELSE IF verbosity = 1
         THEN startswith(key, "_debug_")
         ELSE FALSE

\* One iteration of the loop of filter_context_by_prefix: TRUE when the
\* key is skipped (continue) at the current verbosity.
FilterSkips(key) ==
    IF verbosity = 0
    THEN startswith(key, "_verbose_") \/ startswith(key, "_debug_")
    ELSE IF verbosity = 1
         THEN startswith(key, "_debug_")
         ELSE FALSE

filter_context_by_prefix(event_dict) ==
    IF verbosity >= 2
    THEN event_dict
    ELSE SelectSeq(event_dict, LAMBDA p : ~FilterSkips(p[1]))

\* Mutant of CleanKey: only the two verbosity prefixes are removed
CleanKeyVerbosityOnly(key) ==
    IF startswith(key, "_verbose_") \/ startswith(key, "_debug_")
    THEN Tail(key)
    ELSE key

\* Mutant of CleanKey: prefixes are removed for as long as the key starts
\* with one
CleanKeyAllPrefixes(key) ==
    LET lead == { n \in 0..Len(key) :
                    \A i \in 1..n : key[i] \in { DEFAULT_PREFIXES[j] :
                                                   j \in 1..Len(DEFAULT_PREFIXES) } }
        n    == CHOOSE m \in lead : \A o \in lead : o <= m
    IN  SubSeq(key, n + 1, Len(key))

\* The inner loop of strip_prefixes_from_keys: the first prefix of
\* DEFAULT_PREFIXES the key starts with is removed, once.
CleanKey(key) ==
    LET hits == { i \in 1..Len(DEFAULT_PREFIXES) :
                    startswith(key, DEFAULT_PREFIXES[i]) }
    IN  IF hits = {}
        THEN key
        ELSE removeprefix(key,
                 DEFAULT_PREFIXES[CHOOSE i \in hits : \A j \in hits : i <= j])

RECURSIVE StripInto(_, _)
StripInto(event_dict, cleaned_dict) ==
    IF event_dict = << >>
    THEN cleaned_dict
    ELSE StripInto(Tail(event_dict),
                   Put(cleaned_dict, CleanKey(Head(event_dict)[1]),
                       Head(event_dict)[2]))

strip_prefixes_from_keys(event_dict) == StripInto(event_dict, << >>)

----------------------------------------------------------------------------
(* format_context_yaml: yaml.safe_dump(sort_keys=True), block style, each *)
(* line padded by the indent.  A line is <<indent, key, value>>.          *)

\* The tokens in the order of their strings
TokenOrder == <<"_debug_", "_display_level", "_live_", "_perf_", "_security_",
                "_verbose_", "command", "event", "level", "package",
                "timestamp", "tool", "x", "y">>

TokRank(t) == CHOOSE i \in 1..Len(TokenOrder) : TokenOrder[i] = t

\* key a sorts before key b
KeyLess(a, b) ==
    \E n \in 0..Len(a) :
        /\ n <= Len(b)
        /\ \A i \in 1..n : a[i] = b[i]
        /\ \/ n = Len(a) /\ n < Len(b)
           \/ n < Len(a) /\ n < Len(b) /\ TokRank(a[n + 1]) < TokRank(b[n + 1])

RECURSIVE SortByKey(_)
SortByKey(d) ==
    IF d = << >>
    THEN << >>
    ELSE LET m == CHOOSE i \in 1..Len(d) :
                      \A j \in 1..Len(d) : j # i => KeyLess(d[i][1], d[j][1])
         IN  <<d[m]>> \o SortByKey([i \in 1..(Len(d) - 1) |->
                                       IF i < m THEN d[i] ELSE d[i + 1]])

YamlIndent == 2

format_context_yaml(event_dict) ==
    IF event_dict = << >>
    THEN << >>
    ELSE LET s == SortByKey(event_dict)
         IN  [i \in 1..Len(s) |-> <<YamlIndent, s[i][1], s[i][2]>>]

\* The keys a context block shows
ContextKeys(context_yaml) == { context_yaml[i][2] : i \in 1..Len(context_yaml) }

----------------------------------------------------------------------------
(* Matchers: LogMatcher, ToolMatch *)

\* Python truthiness of a field value (values are strings)
Truthy(v) == v # ""

ToolMatch(event, prefix, level, command_key, tool_key) ==
    [kind |-> "tool", event |-> event, prefix |-> prefix, level |-> level,
     key |-> command_key, tool_key |-> tool_key, declines |-> FALSE]

\* A LogMatcher subclass in the style of the examples' InstallMatch: it
\* matches a level, an event name and a required key, pops the key, and
\* returns either text or None ("None to use default formatting").
CustomMatch(event, level, key, declines) ==
    [kind |-> "custom", event |-> event, prefix |-> "", level |-> level,
     key |-> key, tool_key |-> << >>, declines |-> declines]

\* The base class itself: matches and format raise NotImplementedError.
BaseMatch ==
    [kind |-> "base", event |-> "", prefix |-> "", level |-> "", key |-> << >>,
     tool_key |-> << >>, declines |-> FALSE]

\* Mutant of MatcherRaises: an exception of matches() is swallowed and
\* counts as no match
MatcherRaisesSwallowed(m) == FALSE

\* matcher.matches raises: the base class's own method
MatcherRaises(m) == m.kind = "base"

\* A LogMatcher subclass that overrides matches only: format is the base
\* class's and raises NotImplementedError
PartialMatch(event, level, key) ==
    [kind |-> "partial", event |-> event, prefix |-> "", level |-> level,
     key |-> key, tool_key |-> << >>, declines |-> FALSE]

\* matcher.format raises
FormatRaises(m) == m.kind = "partial"

\* Mutant of Matches: the level is not compared
MatchesAnyLevel(m, level, event, event_dict) ==
    /\ event = m.event
    /\ Has(event_dict, m.key)

\* matcher.matches(level, event, event_dict)
Matches(m, level, event, event_dict) ==
    /\ level = m.level
    /\ event = m.event
    /\ Has(event_dict, m.key)

\* ToolMatch.format: the text returned
ToolFormatText(m, event_dict) ==
    LET command   == Get(event_dict, m.key)
        tool_name == PopValue(PopRest(event_dict, m.key), m.tool_key, "")
    IN  IF Truthy(tool_name)
        THEN <<"tool", m.prefix, tool_name, command>>
        ELSE <<"cmd", command>>

\* ToolMatch.format: the dictionary left after the two pops
ToolFormatRest(m, event_dict) == PopRest(PopRest(event_dict, m.key), m.tool_key)

\* matcher.format(level, event, event_dict): the text, or None
FormatText(m, event_dict) ==
    IF m.kind = "tool"
    THEN ToolFormatText(m, event_dict)
    ELSE IF m.declines THEN NoText ELSE <<"custom", Get(event_dict, m.key)>>

\* Mutant of FormatRest: a formatter that returns None leaves the fields
\* as they were
FormatRestUndoneOnNone(m, event_dict) ==
    IF m.kind = "tool"
    THEN ToolFormatRest(m, event_dict)
    ELSE IF m.declines THEN event_dict ELSE PopRest(event_dict, m.key)

\* matcher.format(level, event, event_dict): event_dict after the call
FormatRest(m, event_dict) ==
    IF m.kind = "tool"
    THEN ToolFormatRest(m, event_dict)
    ELSE PopRest(event_dict, m.key)

----------------------------------------------------------------------------
(* cli_renderer *)

\* method_name.upper()
Upper(method_name) ==
    CASE method_name = "info"    -> "INFO"
      [] method_name = "debug"   -> "DEBUG"
      [] method_name = "warning" -> "WARNING"
      [] method_name = "error"   -> "ERROR"

\* level_styles.get(level, "bold cyan")
LevelStyle(level) ==
    CASE level = "INFO"     -> "blue"
      [] level = "WARNING"  -> "yellow"
      [] level = "ERROR"    -> "red"
      [] level = "DEBUG"    -> "magenta"
      [] level = "CRITICAL" -> "white on red"
      [] level = "SUCCESS"  -> "green"
      [] OTHER              -> "bold cyan"

\* The default text: <<"default", style, label, message>>
DefaultText(level, event_msg) ==
    IF level = "DEBUG"
    THEN <<"default", LevelStyle(level), "DEBUG", event_msg>>
    ELSE IF level \in {"WARNING", "ERROR", "CRITICAL"}
         THEN <<"default", LevelStyle(level), level, event_msg>>
         ELSE <<"default", LevelStyle(level), "", event_msg>>

\* pre_process_log: the internal structlog keys are removed
pre_process_log(event_dict) ==
    SelectSeq(event_dict,
              LAMBDA p : p[1] \notin {K("timestamp"), K("level"),
                                      K("log_level"), K("event")})

\* Mutant of DispatchFrom: no break after a matcher has supplied text
RECURSIVE DispatchFromNoBreak(_, _, _, _)
DispatchFromNoBreak(i, level, event_msg, acc) ==
    IF i > Len(matchers)
    THEN acc
    ELSE LET m    == matchers[i]
             acc1 == [acc EXCEPT !.consulted = Append(@, i),
                                 !.matcherKeys = @ \cup Keys(acc.event_dict)]
         IN  IF MatcherRaises(m)
             THEN [acc1 EXCEPT !.raised = TRUE]
             ELSE IF Matches(m, level, event_msg, acc.event_dict)
                       /\ FormatRaises(m)
                  THEN [acc1 EXCEPT !.invoked = Append(@, i), !.raised = TRUE]
             ELSE IF Matches(m, level, event_msg, acc.event_dict)
                  THEN LET text == FormatText(m, acc.event_dict)
                           acc2 == [acc1 EXCEPT
                                      !.invoked = Append(@, i),
                                      !.event_dict = FormatRest(m, acc.event_dict),
                                      !.log_msg = IF text # NoText THEN text ELSE @,
                                      !.winner = IF text # NoText THEN i ELSE @]
                       IN  DispatchFromNoBreak(i + 1, level, event_msg, acc2)
                  ELSE DispatchFromNoBreak(i + 1, level, event_msg, acc1)

\* The loop over _MATCHERS, from matcher i on.  acc carries log_msg, the
\* event_dict as mutated so far, the matchers whose matches() was called
\* (consulted), those whose format() was called (invoked), the matcher
\* whose text ended the loop (winner, 0 for none), the keys of the
\* dictionaries handed to matchers, and whether a matcher raised, in
\* matches() or in format(): the exception ends the loop.
RECURSIVE DispatchFrom(_, _, _, _)
DispatchFrom(i, level, event_msg, acc) ==
    IF i > Len(matchers)
    THEN acc
    ELSE LET m    == matchers[i]
             acc1 == [acc EXCEPT !.consulted = Append(@, i),
                                 !.matcherKeys = @ \cup Keys(acc.event_dict)]
         IN  IF MatcherRaises(m)
             THEN [acc1 EXCEPT !.raised = TRUE]
             ELSE IF Matches(m, level, event_msg, acc.event_dict)
                       /\ FormatRaises(m)
                  THEN [acc1 EXCEPT !.invoked = Append(@, i), !.raised = TRUE]
             ELSE IF Matches(m, level, event_msg, acc.event_dict)
                  THEN LET text == FormatText(m, acc.event_dict)
                           acc2 == [acc1 EXCEPT
                                      !.invoked = Append(@, i),
                                      !.event_dict = FormatRest(m, acc.event_dict),
                                      !.log_msg = text]
                       IN  IF text # NoText
                           THEN [acc2 EXCEPT !.winner = i]
                           ELSE DispatchFrom(i + 1, level, event_msg, acc2)
                  ELSE DispatchFrom(i + 1, level, event_msg, acc1)

Dispatch(level, event_msg, event_dict) ==
    DispatchFrom(1, level, event_msg,
                 [log_msg |-> NoText, event_dict |-> event_dict,
                  consulted |-> << >>, invoked |-> << >>, winner |-> 0,
                  matcherKeys |-> {}, raised |-> FALSE])

\* The context block of the fields left after the matchers
ContextOf(event_dict) ==
    format_context_yaml(strip_prefixes_from_keys(filter_context_by_prefix(event_dict)))

\* cli_renderer up to the sink decision
Render(method_name, event_dict) ==
    LET level     == Upper(method_name)
        event_msg == PopValue(event_dict, K("event"), "")
        d1        == PopRest(event_dict, K("event"))
        is_live   == Truthy(PopValue(d1, K("_live_"), ""))
        d2        == pre_process_log(PopRest(d1, K("_live_")))
        disp      == Dispatch(level, event_msg, d2)
    IN  [is_live_message |-> is_live,
         raised      |-> disp.raised,
         log_msg     |-> IF disp.raised THEN NoText
                         ELSE IF disp.log_msg = NoText
                              THEN DefaultText(level, event_msg)
                              ELSE disp.log_msg,
         context_yaml |-> IF disp.raised THEN << >> ELSE ContextOf(disp.event_dict),
         consulted   |-> disp.consulted,
         invoked     |-> disp.invoked,
         winner      |-> disp.winner,
         matcherKeys |-> disp.matcherKeys,
         filterKeys  |-> IF disp.raised THEN {} ELSE Keys(disp.event_dict)]

\* Mutant of BuffersLive: the verbosity is not looked at
BuffersLiveAtAnyLevel(is_live_message) ==
    is_live_message /\ liveContext # None

\* The sink decision of cli_renderer
BuffersLive(is_live_message) ==
    is_live_message /\ liveContext # None /\ verbosity = 0

\* Mutant of DisplayLines: only the message buffered last is shown
DisplayLinesLatest(msgs) ==
    IF msgs = << >>
    THEN << >>
    ELSE LET msg == msgs[Len(msgs)][1]
             ctx == msgs[Len(msgs)][2]
         IN  <<msg>> \o [i \in 1..Len(ctx) |-> <<"  ", ctx[i]>>]

\* The lines the live display is updated with: every buffered message,
\* then its context lines indented by two more spaces
RECURSIVE DisplayLines(_)
DisplayLines(msgs) ==
    IF msgs = << >>
    THEN << >>
    ELSE LET msg == Head(msgs)[1]
             ctx == Head(msgs)[2]
         IN  <<msg>> \o [i \in 1..Len(ctx) |-> <<"  ", ctx[i]>>]
                     \o DisplayLines(Tail(msgs))

----------------------------------------------------------------------------
(* The logging pipeline configure_logging installs: the bound logger's     *)
(* method, structlog.stdlib.filter_by_level, TimeStamper, add_log_level,   *)
(* then cli_renderer.                                                      *)

\* logging.DEBUG, INFO, WARNING, ERROR
LevelNo(method_name) ==
    CASE method_name = "debug"   -> 10
      [] method_name = "info"    -> 20
      [] method_name = "warning" -> 30
      [] method_name = "error"   -> 40

\* Mutant of RootLevelFor: DEBUG enabled from verbosity 1 on
RootLevelForVerbose(n) == IF n >= 1 THEN 10 ELSE 20

\* root_logger.setLevel(logging.DEBUG if verbosity >= 2 else logging.INFO)
RootLevelFor(n) == IF n >= 2 THEN 10 ELSE 20

\* filter_by_level: the event goes on iff the stdlib logger is enabled
IsEnabledFor(method_name) == LevelNo(method_name) >= rootLevel

\* The event dictionary cli_renderer receives
EventDictOf(method_name, event, kwargs) ==
    Put(Put(Put(kwargs, K("event"), event), K("timestamp"), "ts"),
        K("level"), method_name)

\* The matchers argument of configure_logging: a list, or None when the
\* caller passes none (the parameter's default)
Some(ms) == [given |-> TRUE, list |-> ms]
NoMatchers == [given |-> FALSE, list |-> << >>]

NoOp ==
    [op |-> "init", method |-> "", handle |-> "none", tagged |-> FALSE, event |-> "",
     kwargs |-> << >>, sink |-> "none", log_msg |-> NoText,
     context_yaml |-> << >>, consulted |-> << >>, invoked |-> << >>,
     winner |-> 0, matcherKeys |-> {}, filterKeys |-> {}, arg |-> 0, raised |-> FALSE,
     propagated |-> FALSE, entry0 |-> FALSE, result |-> << >>,
     passed |-> NoMatchers, again |-> FALSE]

----------------------------------------------------------------------------
(* Bounds and input domains *)

\* Rendered messages held at once: permanent output plus live buffer
MaxLog == 2
\* Nesting depth of open live_logging scopes
MaxSessions == 2

Methods == {"info", "debug", "warning", "error"}
VerbosityArgs == -1..3
StatusMessages == {"Processing..."}

----------------------------------------------------------------------------
(* State machine *)

Init ==
    /\ verbosity = 0
    /\ matchers = << >>
    /\ liveContext = None
    /\ liveMessages = << >>
    /\ rootLevel = 30
    /\ configured = FALSE
    /\ sessions = << >>
    /\ out = << >>
    /\ lastOp = NoOp

\* What configure_logging stores for the verbosity argument
StoredVerbosity(n) == n

\* Mutant of StoredMatchers: a call that passes no matchers keeps the
\* registry of the call before
StoredMatchersKept(ms) ==
    IF ms.given /\ ms.list # << >> THEN ms.list ELSE matchers

\* Mutant of StoredMatchers: the list passed is appended to the registry
StoredMatchersAppended(ms) ==
    matchers \o (IF ms.given /\ ms.list # << >> THEN ms.list ELSE << >>)

\* _MATCHERS = matchers or []
StoredMatchers(ms) ==
    IF ms.given /\ ms.list # << >> THEN ms.list ELSE << >>

\* configure_logging(verbosity=n, matchers=ms).  The history record notes
\* a call that repeats the arguments of the call right before it.
\* Mutant of ConfiguredMessages: configuring starts from an empty buffer
ConfiguredMessagesReset == << >>

\* The buffer after configure_logging: the function declares only
\* _VERBOSITY_LEVEL and _MATCHERS global and assigns nothing else
ConfiguredMessages == liveMessages

configure_logging(n, ms) ==
    /\ verbosity' = StoredVerbosity(n)
    /\ matchers' = StoredMatchers(ms)
    /\ rootLevel' = RootLevelFor(n)
    /\ configured' = TRUE
    /\ lastOp' = [NoOp EXCEPT !.op = "configure", !.arg = n, !.passed = ms,
                              !.again = /\ lastOp.op = "configure"
                                        /\ lastOp.arg = n
                                        /\ lastOp.passed = ms]
    /\ liveMessages' = ConfiguredMessages
    /\ UNCHANGED <<liveContext, sessions, out>>

\* Mutant of EntersLive: the live branch taken below debug level
EntersLiveBelowDebug == verbosity < 2

\* The branch live_logging takes on entry
EntersLive == verbosity = 0

\* An open scope: the handle live_logging yielded (LiveLogger with its
\* is_live_mode) and, as history, whether another scope has been opened
\* inside this one.
LiveLogger(is_live_mode) == [is_live_mode |-> is_live_mode, nested |-> FALSE]

\* The open scopes, each marked as having had a scope opened inside it
MarkNested(ss) == [i \in 1..Len(ss) |-> [ss[i] EXCEPT !.nested = TRUE]]

\* Mutant of EntryMessages: the entry keeps what the buffer held
EntryMessagesKept == liveMessages

\* The buffer the verbosity-0 entry leaves: _LIVE_MESSAGES = []
EntryMessages == << >>

\* with live_logging(message) as live: entry.  The history record notes
\* the length of the buffer at entry.
live_logging_enter(message) ==
    /\ Len(sessions) < MaxSessions
    /\ IF EntersLive
       THEN /\ liveMessages' = EntryMessages
            /\ liveContext' = [owner |-> Len(sessions) + 1,
                               shown |-> << <<"status", message>> >>]
            /\ sessions' = Append(MarkNested(sessions), LiveLogger(TRUE))
            /\ out' = out
       ELSE /\ Len(out) + Len(liveMessages) < MaxLog
            /\ out' = Append(out, << <<"status", message>>, << >> >>)
            /\ sessions' = Append(MarkNested(sessions), LiveLogger(FALSE))
            /\ UNCHANGED <<liveContext, liveMessages>>
    /\ lastOp' = [NoOp EXCEPT !.op = "open", !.entry0 = EntersLive,
                              !.event = message, !.passed = lastOp.passed,
                              !.arg = Len(liveMessages)]
    /\ UNCHANGED <<verbosity, matchers, rootLevel, configured>>

\* Mutant of ExitMessages: the finally clause forgets the buffer
ExitMessagesKept == liveMessages

\* Mutant of ExitContext: the exit of an inner scope hands the display back
\* to the enclosing live scope
ExitContextBackToOuter ==
    IF Len(sessions) > 1 /\ sessions[Len(sessions) - 1].is_live_mode
    THEN [owner |-> Len(sessions) - 1, shown |-> << >>]
    ELSE None

\* The live context the finally clause leaves
ExitContext == None

\* Mutant of ExitMessages: the buffer is left to an enclosing scope
ExitMessagesLeftToOuter == IF Len(sessions) > 1 THEN liveMessages ELSE << >>

\* The buffer the finally clause leaves
ExitMessages == << >>

\* Mutant of ExitClears: the exit looks at the verbosity of the moment
ExitClearsAtZeroNow(top) == verbosity = 0

\* Whether the exit runs the finally clause: it belongs to the branch
\* taken at entry
ExitClears(top) == top.is_live_mode

\* An exception of the body reaches the caller: finally does not swallow
Propagates(raised) == raised

\* with live_logging(...): exit of the innermost open scope, the body
\* having finished normally or raised
live_logging_exit(raised) ==
    /\ sessions # << >>
    /\ LET top == sessions[Len(sessions)]
       IN  /\ IF ExitClears(top)
              THEN /\ liveContext' = ExitContext
                   /\ liveMessages' = ExitMessages
              ELSE UNCHANGED <<liveContext, liveMessages>>
           /\ lastOp' = [NoOp EXCEPT !.op = "close", !.raised = raised,
                                     !.propagated = Propagates(raised),
                                     !.entry0 = top.is_live_mode,
                                     !.arg = Len(liveMessages),
                                     !.passed = lastOp.passed]
    /\ sessions' = SubSeq(sessions, 1, Len(sessions) - 1)
    /\ UNCHANGED <<verbosity, matchers, rootLevel, configured, out>>

\* One call of a bound logger's method, through the processor chain
Emit(method_name, event, kwargs, handle, tagged) ==
    \E r \in { Render(method_name,
                      EventDictOf(method_name, event,
                                  IF tagged
                                  THEN Put(kwargs, K("_live_"), "True")
                                  ELSE kwargs)) } :
    \E op \in { [NoOp EXCEPT !.op = "log", !.method = method_name,
                             !.handle = handle, !.tagged = tagged,
                             !.event = event, !.kwargs = kwargs,
                             !.passed = lastOp.passed,
                             !.consulted = r.consulted,
                             !.invoked = r.invoked,
                             !.winner = r.winner,
                             !.matcherKeys = r.matcherKeys,
                             !.filterKeys = r.filterKeys,
                             !.log_msg = r.log_msg,
                             !.context_yaml = r.context_yaml] } :
        /\ configured
        /\ IF ~IsEnabledFor(method_name)
           THEN /\ lastOp' = [NoOp EXCEPT !.op = "log", !.method = method_name,
                                          !.handle = handle, !.tagged = tagged,
                                          !.event = event, !.kwargs = kwargs,
                                          !.passed = lastOp.passed,
                                          !.sink = "dropped"]
                /\ UNCHANGED <<liveContext, liveMessages, out>>
           ELSE IF r.raised
           THEN /\ lastOp' = [op EXCEPT !.sink = "raised", !.raised = TRUE,
                                        !.propagated = TRUE]
                /\ UNCHANGED <<liveContext, liveMessages, out>>
           ELSE IF BuffersLive(r.is_live_message)
           THEN /\ Len(out) + Len(liveMessages) < MaxLog
                /\ liveMessages' = Append(liveMessages,
                                          <<r.log_msg, r.context_yaml>>)
                /\ liveContext' = [liveContext EXCEPT
                                     !.shown = DisplayLines(liveMessages')]
                /\ out' = out
                /\ lastOp' = [op EXCEPT !.sink = "buffered"]
           ELSE /\ Len(out) + Len(liveMessages) < MaxLog
                /\ out' = Append(out, <<r.log_msg, r.context_yaml>>)
                /\ lastOp' = [op EXCEPT !.sink = "printed"]
                /\ UNCHANGED <<liveContext, liveMessages>>
        /\ UNCHANGED <<verbosity, matchers, rootLevel, configured, sessions>>

\* Mutant of HandleTags: warning forgotten
HandleTagsInfoOnly(handle, method_name) ==
    handle.is_live_mode /\ method_name = "info"

\* Mutant of HandleTags: error tagged like the other methods
HandleTagsEvery(handle, method_name) == handle.is_live_mode

\* LiveLogger.info / debug / warning set the live flag in live mode,
\* LiveLogger.error never does
HandleTags(handle, method_name) ==
    handle.is_live_mode /\ method_name \in {"info", "debug", "warning"}

\* get_logger(name).<method>(event, **kwargs)
LoggerCall(method_name, event, kwargs) ==
    Emit(method_name, event, kwargs, "logger", FALSE)

\* live.<method>(event, **kwargs) on the handle of the open session k
HandleCall(k, method_name, event, kwargs) ==
    /\ k \in 1..Len(sessions)
    /\ Emit(method_name, event, kwargs,
            IF sessions[k].is_live_mode THEN "live" ELSE "plain",
            HandleTags(sessions[k], method_name))

\* Inputs of the session-level specification
CoreEvents == {"m"}
CoreKwargs == { << >> }
CoreMatcherLists == { << >> }

Configure == \E n \in VerbosityArgs, ms \in CoreMatcherLists :
                 configure_logging(n, Some(ms))
Open == \E message \in StatusMessages : live_logging_enter(message)
Close == \E raised \in BOOLEAN : live_logging_exit(raised)
Log == \E method_name \in Methods, event \in CoreEvents, kwargs \in CoreKwargs :
           LoggerCall(method_name, event, kwargs)
LiveLog == \E k \in 1..MaxSessions, method_name \in Methods,
              event \in CoreEvents, kwargs \in CoreKwargs :
               HandleCall(k, method_name, event, kwargs)

Next == Configure \/ Open \/ Close \/ Log \/ LiveLog

Spec == Init /\ [][Next]_vars

----------------------------------------------------------------------------
(* Properties of the session-level specification *)

\* The entry the renderer adds to the output or to the buffer
Rendered(op) == <<op.log_msg, op.context_yaml>>

\* The entry live_logging prints for its status message at verbosity >= 1
StatusEntry(message) == << <<"status", message>>, << >> >>

\* Verbosity 0 and one scope open, entered live, nothing opened inside it
SoleLiveSession ==
    /\ verbosity = 0
    /\ Len(sessions) = 1
    /\ sessions[1].is_live_mode
    /\ ~sessions[1].nested

\* One scope open, entered at verbosity >= 1, nothing opened inside it
SolePlainSession ==
    /\ Len(sessions) = 1
    /\ ~sessions[1].is_live_mode
    /\ ~sessions[1].nested

\* C1: at verbosity 0 with exactly one live session open, an info or
\* warning call through the handle is appended to the live buffer and not
\* printed; the normal exit of the scope empties the buffer and adds
\* nothing to the permanent output; a message logged through the ordinary
\* logger with no scope open is appended to the permanent output.
C1_LiveBufferedThenGone ==
    [][ /\ ( /\ lastOp'.op = "log"
             /\ lastOp'.handle = "live"
             /\ lastOp'.method \in {"info", "warning"}
             /\ SoleLiveSession )
           => /\ lastOp'.sink = "buffered"
              /\ out' = out
              /\ liveMessages' = Append(liveMessages, Rendered(lastOp'))
        /\ ( /\ lastOp'.op = "close"
             /\ ~lastOp'.raised
             /\ SoleLiveSession )
           => /\ out' = out
              /\ liveMessages' = << >>
        /\ ( /\ lastOp'.op = "log"
             /\ lastOp'.handle = "logger"
             /\ lastOp'.method \in {"info", "warning", "error"}
             /\ verbosity = 0
             /\ sessions = << >> )
           => /\ lastOp'.sink = "printed"
              /\ out' = Append(out, Rendered(lastOp'))
      ]_vars

C1_Witness ==
    /\ lastOp.op = "log"
    /\ lastOp.handle = "live"
    /\ lastOp.method = "warning"
    /\ lastOp.sink = "buffered"
    /\ SoleLiveSession
    /\ Len(liveMessages) = 2
    /\ out = << >>

\* C2: an error call through a live-session handle is never tagged live;
\* at verbosity 0, 1 and 2 it is appended to the permanent output and the
\* live buffer and live context are left as they were; a scope exit
\* removes nothing from the permanent output.
C2_ErrorNeverBuffered ==
    [][ /\ ( /\ lastOp'.op = "log"
             /\ lastOp'.handle \in {"live", "plain"}
             /\ lastOp'.method = "error"
             /\ verbosity \in 0..2 )
           => /\ ~lastOp'.tagged
              /\ lastOp'.sink = "printed"
              /\ out' = Append(out, Rendered(lastOp'))
              /\ liveMessages' = liveMessages
              /\ liveContext' = liveContext
        /\ lastOp'.op = "close" => out' = out
      ]_vars

C2_Witness ==
    /\ lastOp.op = "log"
    /\ lastOp.handle = "live"
    /\ lastOp.method = "error"
    /\ lastOp.sink = "printed"
    /\ verbosity = 0
    /\ liveContext # None
    /\ liveMessages # << >>
    /\ out = <<Rendered(lastOp)>>

\* C3: the exit of a scope entered at verbosity 0 leaves the live context
\* None and the live buffer empty, whether the body finished or raised,
\* and an exception of the body reaches the caller.
C3_ExitCleansUp ==
    (lastOp.op = "close" /\ lastOp.entry0)
        => /\ liveContext = None
           /\ liveMessages = << >>
           /\ lastOp.raised => lastOp.propagated

\* A scope entered at verbosity 0 exits by an exception with messages
\* in the buffer
C3_Witness ==
    /\ lastOp.op = "close"
    /\ lastOp.entry0
    /\ lastOp.raised
    /\ lastOp.propagated
    /\ lastOp.arg > 0
    /\ liveMessages = << >>

\* C4: live_logging entered at verbosity 1 or 2 prints the status message
\* once and yields a handle that is not in live mode; no call through such
\* a handle is tagged live and its info and warning calls are printed at
\* once; the exit prints and clears nothing; while this is the only open
\* scope, no live context is set and the live buffer is empty.
C4_PlainSession ==
    /\ [](SolePlainSession => liveContext = None /\ liveMessages = << >>)
    /\ [][ /\ (lastOp'.op = "open" /\ verbosity \in {1, 2})
              => /\ out' = Append(out, StatusEntry(lastOp'.event))
                 /\ ~sessions'[Len(sessions')].is_live_mode
                 /\ UNCHANGED <<liveContext, liveMessages>>
           /\ (lastOp'.op = "log" /\ lastOp'.handle = "plain")
              => /\ ~lastOp'.tagged
                 /\ lastOp'.method \in {"info", "warning"}
                    => /\ lastOp'.sink = "printed"
                       /\ out' = Append(out, Rendered(lastOp'))
                       /\ UNCHANGED <<liveContext, liveMessages>>
           /\ (lastOp'.op = "close" /\ ~lastOp'.entry0)
              => /\ out' = out
                 /\ UNCHANGED <<liveContext, liveMessages>>
         ]_vars

C4_Witness ==
    /\ lastOp.op = "log"
    /\ lastOp.handle = "plain"
    /\ lastOp.method = "info"
    /\ lastOp.sink = "printed"
    /\ verbosity = 1
    /\ SolePlainSession
    /\ out = <<StatusEntry("Processing..."), Rendered(lastOp)>>

----------------------------------------------------------------------------
(* The rendering scenario: configure_logging once, then at most one scope  *)
(* opened, then one log call, over a wide range of events and matchers.    *)

\* ToolMatch() with its default arguments
Tool == ToolMatch("executing", "tb", "INFO", K("command"), K("tool"))

\* A custom matcher that supplies text, and one that pops its key and
\* returns None
Installer == CustomMatch("executing", "INFO", K("x"), FALSE)
Decliner == CustomMatch("executing", "INFO", K("x"), TRUE)

\* A matcher whose predicate holds of the tool-execution events and whose
\* formatter raises
Partial == PartialMatch("executing", "INFO", K("command"))

RenderMatcherLists ==
    { << >>, <<Tool>>, <<Installer, Tool>>, <<Decliner, Tool>>,
      <<Decliner, Installer>>, <<Tool, Installer>>, <<BaseMatch>>,
      <<Tool, BaseMatch>>, <<BaseMatch, Tool>>, <<Partial, Tool>> }

RenderEvents == {"m", "executing"}

RenderPairs ==
    { <<K("x"), "1">>, <<PK("_verbose_", "x"), "2">>,
      <<PK("_debug_", "x"), "3">>, <<K("command"), "c">>,
      <<K("tool"), "t">>, <<K("tool"), "">>,
      <<K("_display_level"), "0">>, <<K("_display_level"), "1">>,
      <<K("_display_level"), "2">> }

\* The keyword arguments of a log call: up to two fields, and some of three
RenderKwargs ==
    { << >> }
    \cup { <<p>> : p \in RenderPairs }
    \cup { d \in { <<p, q>> : p \in RenderPairs, q \in RenderPairs } :
                 IsDict(d) }
    \cup { << <<K("command"), "c">>, <<K("tool"), "t">>, <<K("x"), "1">> >>,
           << <<K("x"), "1">>, <<K("command"), "c">>, <<K("tool"), "">> >>,
           << <<K("command"), "c">>, <<PK("_verbose_", "x"), "2">>,
              <<PK("_debug_", "x"), "3">> >> }

RConfigure ==
    /\ lastOp.op = "init"
    /\ \E n \in VerbosityArgs, ms \in RenderMatcherLists :
           configure_logging(n, Some(ms))

ROpen ==
    /\ lastOp.op = "configure"
    /\ \E message \in StatusMessages : live_logging_enter(message)

RLog ==
    /\ lastOp.op \in {"configure", "open"}
    /\ \E method_name \in Methods, event \in RenderEvents, kwargs \in RenderKwargs :
           LoggerCall(method_name, event, kwargs)

RLiveLog ==
    /\ lastOp.op = "open"
    /\ \E method_name \in Methods, event \in RenderEvents, kwargs \in RenderKwargs :
           HandleCall(1, method_name, event, kwargs)

NextRender == RConfigure \/ ROpen \/ RLog \/ RLiveLog

SpecRender == Init /\ [][NextRender]_vars

----------------------------------------------------------------------------
(* The pure functions of the context filter, applied to drawn inputs *)

\* Fields per dictionary
MaxFields == 2

PureKeys ==
    { K("x"), K("y"), PK("_verbose_", "x"), PK("_debug_", "x"),
      PK("_perf_", "x"), PK("_security_", "x"), K("_verbose_"),
      <<"_verbose_", "_debug_", "x">> }

PureValues == {"1", "2"}

RECURSIVE DictsUpTo(_)
DictsUpTo(n) ==
    IF n = 0
    THEN { << >> }
    ELSE LET shorter == DictsUpTo(n - 1)
         IN  shorter \cup
             { Append(d, <<k, v>>) : d \in { e \in shorter : Len(e) = n - 1 },
                                      k \in PureKeys, v \in PureValues }

PureDicts == { d \in DictsUpTo(MaxFields) : IsDict(d) }

InitPure ==
    /\ verbosity \in VerbosityArgs
    /\ matchers = << >>
    /\ liveContext = None
    /\ liveMessages = << >>
    /\ rootLevel = RootLevelFor(verbosity)
    /\ configured = TRUE
    /\ sessions = << >>
    /\ out = << >>
    /\ \E d \in PureDicts : lastOp = [NoOp EXCEPT !.op = "input", !.kwargs = d]

Frame ==
    UNCHANGED <<verbosity, matchers, liveContext, liveMessages, rootLevel,
                configured, sessions, out>>

ApplyFilter ==
    /\ lastOp.op = "input"
    /\ lastOp' = [lastOp EXCEPT !.op = "filter",
                                !.result = filter_context_by_prefix(lastOp.kwargs)]
    /\ Frame

ApplyStrip ==
    /\ lastOp.op = "input"
    /\ lastOp' = [lastOp EXCEPT !.op = "strip",
                                !.result = strip_prefixes_from_keys(lastOp.kwargs)]
    /\ Frame

ApplyContext ==
    /\ lastOp.op = "input"
    /\ lastOp' = [lastOp EXCEPT !.op = "context",
                                !.context_yaml = ContextOf(lastOp.kwargs)]
    /\ Frame

NextPure == ApplyFilter \/ ApplyStrip \/ ApplyContext

SpecPure == InitPure /\ [][NextPure]_vars

----------------------------------------------------------------------------
(* Properties of the context filter *)

\* The visibility tier of a key at level v
Visible(key, v) ==
    /\ startswith(key, "_verbose_") => v >= 1
    /\ startswith(key, "_debug_") => v >= 2

\* C5: at each verbosity 0, 1 and 2 the context filter keeps exactly the
\* fields whose key has the `_verbose_` prefix only if the level is >= 1,
\* the `_debug_` prefix only if the level is >= 2, and every field with
\* neither prefix; the kept fields keep their order and values.
C5_FilterKeepsVisible ==
    (lastOp.op = "filter" /\ verbosity \in 0..2)
        => lastOp.result =
               SelectSeq(lastOp.kwargs, LAMBDA p : Visible(p[1], verbosity))

C5_Witness ==
    /\ lastOp.op = "filter"
    /\ verbosity = 1
    /\ lastOp.kwargs = << <<PK("_debug_", "x"), "1">>,
                          <<PK("_verbose_", "x"), "2">> >>
    /\ lastOp.result = << <<PK("_verbose_", "x"), "2">> >>

----------------------------------------------------------------------------
(* Properties of configure_logging *)

\* C6: once configure_logging has been called, the stored verbosity level
\* is 0, 1 or 2, whatever integer was passed.
C6_VerbosityClamped == configured => verbosity \in 0..2

----------------------------------------------------------------------------
(* Properties of the renderer *)

\* The integer a `_display_level` value stands for
IntOf(v) == CASE v = "0" -> 0 [] v = "1" -> 1 [] v = "2" -> 2

HasDisplayLevel(op) == Has(op.kwargs, K("_display_level"))
DisplayLevelOf(op) == IntOf(Get(op.kwargs, K("_display_level")))

\* C7: at verbosity 0, 1 and 2, a message whose `_display_level` exceeds
\* the current verbosity is neither printed nor appended to the live
\* buffer.
C7_DisplayLevelGates ==
    ( /\ lastOp.op = "log"
      /\ verbosity \in 0..2
      /\ HasDisplayLevel(lastOp)
      /\ DisplayLevelOf(lastOp) > verbosity )
        => lastOp.sink \notin {"printed", "buffered"}

ReservedKeys == { K("_live_"), K("_display_level") }

\* C8: at verbosity 0, 1 and 2, neither `_live_` nor `_display_level` is a
\* key of the context block of a message, printed or buffered, nor a key
\* of a dictionary handed to a matcher or to the context filter.
C8_ReservedKeysHidden ==
    (lastOp.op = "log" /\ verbosity \in 0..2)
        => /\ ReservedKeys \cap ContextKeys(lastOp.context_yaml) = {}
           /\ ReservedKeys \cap lastOp.matcherKeys = {}
           /\ ReservedKeys \cap lastOp.filterKeys = {}

\* The elements of a sequence
Range(seq) == { seq[i] : i \in 1..Len(seq) }

\* The predicate of matcher i holds of the event as logged
PredicateHolds(i, op) ==
    Matches(matchers[i], Upper(op.method), op.event, op.kwargs)

\* The formatter of matcher i returns text for the event as logged
GivesText(i, op) ==
    /\ ~FormatRaises(matchers[i])
    /\ FormatText(matchers[i], op.kwargs) # NoText

\* C9, as stated: whenever the first matcher's predicate matches, the
\* second matcher's formatter is not invoked.
C9_Original ==
    ( /\ lastOp.op = "log"
      /\ verbosity \in 0..2
      /\ Len(matchers) >= 2
      /\ PredicateHolds(1, lastOp) )
        => 2 \notin Range(lastOp.invoked)

\* C9, amended: whenever the first matcher's predicate matches and its
\* formatter returns text, the second matcher is neither consulted nor is
\* its formatter invoked, and the text is the first matcher's.
C9_FirstTextWins ==
    ( /\ lastOp.op = "log"
      /\ lastOp.sink # "dropped"
      /\ Len(matchers) >= 2
      /\ PredicateHolds(1, lastOp)
      /\ GivesText(1, lastOp) )
        => /\ lastOp.invoked = <<1>>
           /\ lastOp.consulted = <<1>>
           /\ lastOp.log_msg = FormatText(matchers[1], lastOp.kwargs)

\* Both predicates hold of the event and the first matcher gives text
C9_Witness ==
    /\ lastOp.op = "log"
    /\ lastOp.sink = "printed"
    /\ Len(matchers) = 2
    /\ PredicateHolds(1, lastOp)
    /\ GivesText(1, lastOp)
    /\ PredicateHolds(2, lastOp)
    /\ lastOp.invoked = <<1>>

\* The event reached a ToolMatch registered first
ToolFirst(op) ==
    /\ op.op = "log"
    /\ op.sink # "dropped"
    /\ matchers # << >>
    /\ matchers[1].kind = "tool"

\* The fields a ToolMatch consumes
ToolKeys(m) == {m.key, m.tool_key}

\* What C10 says of a ToolMatch registered first, given when the tool
\* form of the text is used
ToolMatchContract(op, toolForm) ==
    LET m == matchers[1]
        d == op.kwargs
    IN  /\ 1 \in Range(op.invoked)
            <=> /\ Upper(op.method) = m.level
                /\ op.event = m.event
                /\ Has(d, m.key)
        /\ 1 \in Range(op.invoked)
            => /\ op.log_msg =
                      IF toolForm
                      THEN <<"tool", m.prefix, Get(d, m.tool_key), Get(d, m.key)>>
                      ELSE <<"cmd", Get(d, m.key)>>
               /\ op.filterKeys = Keys(d) \ ToolKeys(m)
               /\ ContextKeys(op.context_yaml) \cap ToolKeys(m) = {}

\* C10, as stated: the tool form is used when a tool-name field is present.
C10_Original ==
    (ToolFirst(lastOp) /\ verbosity \in 0..2)
        => ToolMatchContract(lastOp, Has(lastOp.kwargs, matchers[1].tool_key))

\* C10, amended: the tool form is used when a tool-name field is present
\* and its value is not empty; a missing or empty tool name gives the bare
\* command.  The matcher matches iff level and message equal the
\* configured ones and the command field is present, and both fields are
\* removed in either branch.
C10_ToolMatch ==
    ToolFirst(lastOp)
        => ToolMatchContract(lastOp,
               /\ Has(lastOp.kwargs, matchers[1].tool_key)
               /\ Get(lastOp.kwargs, matchers[1].tool_key) # "")

\* A tool-execution event whose tool name is empty renders the bare command
C10_Witness ==
    /\ ToolFirst(lastOp)
    /\ lastOp.invoked = <<1>>
    /\ Has(lastOp.kwargs, K("tool"))
    /\ Get(lastOp.kwargs, K("tool")) = ""
    /\ lastOp.log_msg = <<"cmd", "c">>
    /\ lastOp.filterKeys = { K("x") }

----------------------------------------------------------------------------
(* Properties of the context block of a matched event *)

\* The fields of the event as logged that the matchers left in place
Remaining(op) == SelectSeq(op.kwargs, LAMBDA p : p[1] \in op.filterKeys)

\* The message was rendered with text a matcher supplied
MatchedRender(op) ==
    /\ op.op = "log"
    /\ op.sink \in {"printed", "buffered"}
    /\ op.winner # 0

\* Another field of d is displayed under the same key as p
Collides(p, d) ==
    \E q \in Range(d) : q # p /\ CleanKey(q[1]) = CleanKey(p[1])

\* The field p is a line of the context block, under its stripped key
Shown(p, context_yaml) ==
    <<YamlIndent, CleanKey(p[1]), p[2]>> \in Range(context_yaml)

\* The context block of the fields a matcher left, given the levels at
\* which the statement is made.  The statement about a single field is
\* made of the fields that share their displayed key with no other.
MatchedContextFiltered(levels) ==
    (MatchedRender(lastOp) /\ verbosity \in levels)
        => /\ lastOp.context_yaml =
                  format_context_yaml(strip_prefixes_from_keys(
                      SelectSeq(Remaining(lastOp),
                                LAMBDA p : Visible(p[1], verbosity))))
           /\ \A p \in Range(Remaining(lastOp)) :
                  ~Collides(p, Remaining(lastOp))
                  => /\ startswith(p[1], "_verbose_")
                        => (Shown(p, lastOp.context_yaml) <=> verbosity >= 1)
                     /\ startswith(p[1], "_debug_")
                        => (Shown(p, lastOp.context_yaml) <=> verbosity >= 2)

\* C11: when a matcher supplies the text of an event, the fields it left
\* are filtered by verbosity and prefix-stripped as for an unmatched event:
\* a remaining `_verbose_` field is shown iff verbosity >= 1 and a remaining
\* `_debug_` field iff verbosity >= 2, whatever verbosity is stored.
C11_MatchedContextFiltered == MatchedContextFiltered(VerbosityArgs)

----------------------------------------------------------------------------
(* The configuration scenario: configure_logging called any number of     *)
(* times, with and without matchers, between log calls and one live scope *)
(* at a time.                                                             *)

ConfigMatcherArgs ==
    { NoMatchers, Some(<< >>), Some(<<Tool>>), Some(<<Installer, Tool>>) }

ConfigMethods == {"info", "debug"}
ConfigEvents == {"executing"}
ConfigKwargs == { << <<K("x"), "1">> >>, << <<K("command"), "c">> >> }

CConfigure ==
    \E n \in VerbosityArgs, ms \in ConfigMatcherArgs : configure_logging(n, ms)

CLog ==
    \E method_name \in ConfigMethods, event \in ConfigEvents,
       kwargs \in ConfigKwargs :
        LoggerCall(method_name, event, kwargs)

CLiveLog ==
    \E method_name \in ConfigMethods, event \in ConfigEvents,
       kwargs \in ConfigKwargs :
        HandleCall(1, method_name, event, kwargs)

COpen ==
    /\ sessions = << >>
    /\ Open

NextConfig == CConfigure \/ COpen \/ Close \/ CLog \/ CLiveLog

SpecConfig == Init /\ [][NextConfig]_vars

----------------------------------------------------------------------------
(* Properties of the matcher registry *)

\* The matchers whose predicate a log call consulted
ConsultedMatchers(registry, op) ==
    { registry[i] : i \in Range(op.consulted) }

\* The list the latest configure_logging call passed, empty when it
\* passed none
LatestList(op) == IF op.passed.given THEN op.passed.list ELSE << >>

\* C12: a call of configure_logging leaves the registry equal to the list
\* passed to it, and empty when no matchers are passed; no other operation
\* changes the registry; every matcher a log call consults is a member of
\* the list passed to the latest configure_logging call.
C12_RegistryReplaced ==
    [][ /\ lastOp'.op = "configure" => matchers' = LatestList(lastOp')
        /\ (lastOp'.op # "configure" /\ configured) =>
               /\ matchers' = LatestList(lastOp')
               /\ lastOp'.op = "log" =>
                      /\ ConsultedMatchers(matchers', lastOp') \subseteq
                             Range(LatestList(lastOp'))
                      /\ Len(lastOp'.consulted) <= Len(LatestList(lastOp'))
      ]_vars

\* A registry of two matchers was replaced by a call passing none, and the
\* next tool-execution event was rendered by default
C12_Witness ==
    /\ lastOp.op = "log"
    /\ lastOp.sink = "printed"
    /\ lastOp.kwargs = << <<K("command"), "c">> >>
    /\ ~lastOp.passed.given
    /\ matchers = << >>
    /\ lastOp.consulted = << >>
    /\ Len(out) = 2
    /\ out[1][1] = <<"cmd", "c">>
    /\ out[2][1] = DefaultText("INFO", "executing")

----------------------------------------------------------------------------
(* Properties of repeated configuration *)

\* The program's state: everything but the history record
ProgramState ==
    <<verbosity, matchers, liveContext, liveMessages, rootLevel, configured,
      sessions, out>>

\* C13: a call of configure_logging that repeats the verbosity and the
\* matchers of the call right before it changes nothing of the program's
\* state, whatever that state is (scopes open, messages buffered or
\* printed), so every later log call renders from the same state as after
\* one call; and the configuration a call leaves holds nothing of the
\* registry of earlier calls.
C13_ConfigureIdempotent ==
    [][ lastOp'.op = "configure" =>
            /\ lastOp'.again => ProgramState' = ProgramState
            /\ Range(matchers') \subseteq Range(lastOp'.passed.list)
      ]_vars

\* The repeated call was made with two matchers and verbosity 2 while a
\* live scope opened at verbosity 0 was holding a buffered message
C13_Witness ==
    /\ lastOp.op = "configure"
    /\ lastOp.again
    /\ verbosity = 2
    /\ matchers = <<Installer, Tool>>
    /\ liveContext # None
    /\ Len(liveMessages) = 1
    /\ Len(sessions) = 1

----------------------------------------------------------------------------
(* Properties of filtering followed by stripping *)

TaxonomyPrefixes == {"_verbose_", "_debug_", "_perf_", "_security_"}

\* The key begins with a taxonomy prefix
Prefixed(key) == \E prefix \in TaxonomyPrefixes : startswith(key, prefix)

\* The key carries two taxonomy prefixes in a row
DoublePrefixed(key) == Prefixed(key) /\ Prefixed(Tail(key))

\* C14, as stated: after filtering and stripping no displayed key begins
\* with a taxonomy prefix.
C14_Original ==
    (lastOp.op = "context" /\ verbosity \in 0..2)
        => \A k \in ContextKeys(lastOp.context_yaml) : ~Prefixed(k)

\* C14, amended: after filtering and stripping a displayed key begins with
\* a taxonomy prefix only when it is what is left of a key that carried
\* two taxonomy prefixes in a row; the displayed key of every other field
\* kept by the filter begins with none.
C14_StrippedOnce ==
    lastOp.op = "context"
        => /\ \A k \in ContextKeys(lastOp.context_yaml) :
                  Prefixed(k) =>
                      \E p \in Range(lastOp.kwargs) :
                          DoublePrefixed(p[1]) /\ Tail(p[1]) = k
           /\ \A p \in Range(lastOp.kwargs) :
                  (Visible(p[1], verbosity) /\ ~DoublePrefixed(p[1]))
                      => \E k \in ContextKeys(lastOp.context_yaml) :
                             /\ ~Prefixed(k)
                             /\ k = IF Prefixed(p[1]) THEN Tail(p[1]) ELSE p[1]

\* At verbosity 1 a key with two prefixes in a row keeps the second, next
\* to a `_perf_` field displayed without its prefix
C14_Witness ==
    /\ lastOp.op = "context"
    /\ verbosity = 1
    /\ lastOp.kwargs = << <<PK("_perf_", "x"), "1">>,
                          << <<"_verbose_", "_debug_", "x">>, "2">> >>
    /\ ContextKeys(lastOp.context_yaml) = { K("x"), PK("_debug_", "x") }

----------------------------------------------------------------------------
(* Properties of the level filter *)

----------------------------------------------------------------------------
(* The verbosity resolver (hotlog.verbosity): get_verbosity_from_env and   *)
(* resolve_verbosity.  The environment is the override variable            *)
(* HOTLOG_VERBOSITY, the runner-debug variables RUNNER_DEBUG and           *)
(* ACTIONS_RUNNER_DEBUG, and the set of CI-indicator variables present.    *)

\* Largest count of repeated -v flags drawn
MaxCount == 3

\* A variable that is not in the environment
Unset == "<unset>"

\* The strings int() accepts, among those drawn, and their values
IntStrings == {"-1", "0", "1", "2", "5"}

ParseInt(s) ==
    CASE s = "-1" -> 0 - 1
      [] s = "0"  -> 0
      [] s = "1"  -> 1
      [] s = "2"  -> 2
      [] s = "5"  -> 5

Max(a, b) == IF a >= b THEN a ELSE b
Min(a, b) == IF a <= b THEN a ELSE b

\* Clamped to [0, 2]
Clamp(n) == Max(0, Min(2, n))

\* An environment variable is set and not empty
EnvTruthy(v) == v # Unset /\ v # ""

\* Mutant of get_verbosity_from_env: the CI indicators are looked at
\* before the runner-debug variables
EnvLevelCiFirst(env) ==
    IF env.override \in IntStrings
    THEN Clamp(ParseInt(env.override))
    ELSE IF env.ci # {}
         THEN 1
         ELSE IF EnvTruthy(env.runner_debug) \/ EnvTruthy(env.actions_runner_debug)
              THEN 2
              ELSE 0

\* The environment-derived level, decided in order: the override when it
\* parses as an integer, then runner debug, then the CI indicators
get_verbosity_from_env(env) ==
    IF env.override \in IntStrings
    THEN Clamp(ParseInt(env.override))
    ELSE IF EnvTruthy(env.runner_debug) \/ EnvTruthy(env.actions_runner_debug)
         THEN 2
         ELSE IF env.ci # {}
              THEN 1
              ELSE 0

\* The count of the CLI flags: 0 when no arguments are given or they have
\* no verbose attribute
CliCount(args) == IF args.given THEN args.verbose ELSE 0

\* Mutant of resolve_verbosity: the maximum is returned as it is
ResolveUnclamped(args, env) ==
    Max(CliCount(args), get_verbosity_from_env(env))

\* The maximum of the CLI count and the environment level, clamped
resolve_verbosity(args, env) ==
    Clamp(Max(CliCount(args), get_verbosity_from_env(env)))

OverrideValues == {Unset, "", "invalid"} \cup IntStrings
DebugValues == {Unset, "1"}
CiNames == {"CI", "GITHUB_ACTIONS"}

Environments ==
    [override : OverrideValues, runner_debug : DebugValues,
     actions_runner_debug : {Unset, "true"}, ci : SUBSET CiNames]

CliArgs ==
    { [given |-> FALSE, verbose |-> 0] }
    \cup { [given |-> TRUE, verbose |-> c] : c \in 0..MaxCount }

InitResolve ==
    /\ verbosity = 0
    /\ matchers = << >>
    /\ liveContext = None
    /\ liveMessages = << >>
    /\ rootLevel = 30
    /\ configured = FALSE
    /\ sessions = << >>
    /\ out = << >>
    /\ \E env \in Environments, args \in CliArgs :
           lastOp = [op |-> "input", env |-> env, args |-> args, level |-> 0]

ApplyEnv ==
    /\ lastOp.op = "input"
    /\ lastOp' = [lastOp EXCEPT !.op = "env",
                                !.level = get_verbosity_from_env(lastOp.env)]
    /\ Frame

ApplyResolve ==
    /\ lastOp.op = "input"
    /\ lastOp' = [lastOp EXCEPT !.op = "resolve",
                                !.level = resolve_verbosity(lastOp.args, lastOp.env)]
    /\ Frame

NextResolve == ApplyEnv \/ ApplyResolve

SpecResolve == InitResolve /\ [][NextResolve]_vars

----------------------------------------------------------------------------
(* Properties of the verbosity resolver *)

\* The level the environment gives, stated case by case
EnvLevelByCases(env) ==
    CASE env.override \in {"2", "5"} -> 2
      [] env.override = "1" -> 1
      [] env.override \in {"0", "-1"} -> 0
      [] OTHER ->
           IF env.runner_debug = "1" \/ env.actions_runner_debug = "true"
           THEN 2
           ELSE IF env.ci # {} THEN 1 ELSE 0

\* C17: the resolved verbosity is min(2, max(c, env_level)) for every CLI
\* count c >= 0, taken as 0 when absent, and every environment.
C17_ResolveMaxClamped ==
    lastOp.op = "resolve"
        => LET c == IF lastOp.args.given THEN lastOp.args.verbose ELSE 0
               e == EnvLevelByCases(lastOp.env)
           IN  /\ lastOp.level = (IF (IF c >= e THEN c ELSE e) >= 2
                                  THEN 2
                                  ELSE (IF c >= e THEN c ELSE e))
               /\ lastOp.level \in 0..2

\* A count of three flags above a CI environment resolves to 2
C17_Witness ==
    /\ lastOp.op = "resolve"
    /\ lastOp.args = [given |-> TRUE, verbose |-> 3]
    /\ lastOp.env = [override |-> Unset, runner_debug |-> Unset,
                     actions_runner_debug |-> Unset, ci |-> {"CI"}]
    /\ lastOp.level = 2

\* C18: the environment level is the override clamped to [0,2] when the
\* override holds an integer, whatever the runner-debug and CI variables
\* are; otherwise, the override being unset or not an integer, it is 2
\* when a runner-debug variable is truthy, otherwise 1 when a CI indicator
\* is present, otherwise 0.
C18_EnvOrder ==
    lastOp.op = "env" => lastOp.level = EnvLevelByCases(lastOp.env)

\* An override of 0 wins over runner debug and CI
C18_Witness ==
    /\ lastOp.op = "env"
    /\ lastOp.env = [override |-> "0", runner_debug |-> "1",
                     actions_runner_debug |-> Unset, ci |-> {"CI"}]
    /\ lastOp.level = 0

----------------------------------------------------------------------------
(* The optional live entry point maybe_live_logging: live_logging when    *)
(* buffering is in effect, no handle when the verbosity is 1 or more.     *)
(* Whether the status message is printed when no handle is yielded is not *)
(* laid down, so both outcomes are taken.  In the scenario below scopes    *)
(* are opened through this entry point only.                              *)

\* Mutant of YieldsNull: no handle at debug level only
YieldsNullAtDebug == verbosity >= 2

\* The entry point yields None
YieldsNull == verbosity >= 1

\* with maybe_live_logging(message) as live: entry
maybe_live_logging_enter(message) ==
    IF YieldsNull
    THEN /\ \/ out' = out
            \/ /\ Len(out) + Len(liveMessages) < MaxLog
               /\ out' = Append(out, StatusEntry(message))
         /\ lastOp' = [NoOp EXCEPT !.op = "maybe_open", !.handle = "null",
                                   !.event = message,
                                   !.passed = lastOp.passed]
         /\ UNCHANGED <<verbosity, matchers, liveContext, liveMessages,
                        rootLevel, configured, sessions>>
    ELSE live_logging_enter(message)

\* The levels the entry point is described for
MaybeVerbosityArgs == 0..2

MConfigure ==
    \E n \in MaybeVerbosityArgs : configure_logging(n, NoMatchers)

MOpen == \E message \in StatusMessages : maybe_live_logging_enter(message)

NextMaybe == MConfigure \/ MOpen \/ Close \/ Log \/ LiveLog

SpecMaybe == Init /\ [][NextMaybe]_vars

----------------------------------------------------------------------------
(* Properties of the optional live entry point *)

\* C19: maybe_live_logging yields a live-session handle, with the live
\* display set up for its scope, when the verbosity is 0, and yields no
\* handle and opens no buffering scope when the verbosity is 1 or 2.
C19_MaybeLive ==
    [][ lastOp'.op \in {"open", "maybe_open"}
            => /\ verbosity = 0
                  => /\ lastOp'.op = "open"
                     /\ lastOp'.entry0
                     /\ Len(sessions') = Len(sessions) + 1
                     /\ sessions'[Len(sessions')].is_live_mode
                     /\ liveContext'.owner = Len(sessions')
               /\ verbosity \in {1, 2}
                  => /\ lastOp'.op = "maybe_open"
                     /\ lastOp'.handle = "null"
                     /\ UNCHANGED <<sessions, liveContext, liveMessages>>
      ]_vars

\* At verbosity 1 no handle is yielded and no scope is open
C19_Witness ==
    /\ lastOp.op = "maybe_open"
    /\ lastOp.handle = "null"
    /\ verbosity = 1
    /\ sessions = << >>
    /\ liveContext = None

----------------------------------------------------------------------------
(* Properties of the sink decision *)

\* The event reached the renderer with its live flag set: by the handle of
\* a live session, or by a `_live_` field the caller passed
LiveFlag(op) ==
    \/ op.tagged
    \/ /\ Has(op.kwargs, K("_live_"))
       /\ Truthy(Get(op.kwargs, K("_live_")))

\* C20: every render call appends its message to the live buffer, and
\* prints nothing, iff the live flag was set and a live context is active
\* and the verbosity is 0; in every other case it prints the message and
\* leaves the live buffer and the live context as they were.
C20_SinkDecision ==
    [][ (lastOp'.op = "log" /\ lastOp'.sink \in {"printed", "buffered"})
            => IF LiveFlag(lastOp') /\ liveContext # None /\ verbosity = 0
               THEN /\ lastOp'.sink = "buffered"
                    /\ liveMessages' = Append(liveMessages, Rendered(lastOp'))
                    /\ out' = out
               ELSE /\ lastOp'.sink = "printed"
                    /\ out' = Append(out, Rendered(lastOp'))
                    /\ UNCHANGED <<liveMessages, liveContext>>
      ]_vars

\* A message tagged by the handle of a live session is printed, the live
\* context being active and holding a message, after the verbosity was
\* raised to 1
C20_Witness ==
    /\ lastOp.op = "log"
    /\ lastOp.tagged
    /\ lastOp.sink = "printed"
    /\ verbosity = 1
    /\ liveContext # None
    /\ Len(liveMessages) = 1
    /\ out = <<Rendered(lastOp)>>

----------------------------------------------------------------------------
(* Properties of a formatter that returns None *)

\* The first of two matchers matches the event as logged and its formatter
\* returns None, and the event was rendered
FirstDeclines(op) ==
    /\ op.op = "log"
    /\ op.sink \in {"printed", "buffered"}
    /\ Len(matchers) = 2
    /\ matchers[1].kind = "custom"
    /\ matchers[1].declines
    /\ PredicateHolds(1, op)

\* The fields as logged without the key the first formatter popped
AfterFirst(op) == PopRest(op.kwargs, matchers[1].key)

\* The second matcher matches, and gives text for, what the first left
SecondMatches(op) ==
    Matches(matchers[2], Upper(op.method), op.event, AfterFirst(op))
SecondGivesText(op) ==
    SecondMatches(op) /\ FormatText(matchers[2], AfterFirst(op)) # NoText

\* C21: when the first matcher's predicate matches and its formatter
\* returns None, the second matcher is consulted next, on the fields
\* without the keys the first formatter removed; those keys are not handed
\* to the context filter; the text is the second matcher's when it matches
\* what is left and returns text, and the default level-based text
\* otherwise.
C21_NullFormatterIsMiss ==
    FirstDeclines(lastOp)
        => /\ lastOp.consulted = <<1, 2>>
           /\ lastOp.invoked = IF SecondMatches(lastOp) THEN <<1, 2>> ELSE <<1>>
           /\ matchers[1].key \notin lastOp.filterKeys
           /\ lastOp.filterKeys \subseteq Keys(AfterFirst(lastOp))
           /\ lastOp.log_msg =
                  IF SecondGivesText(lastOp)
                  THEN FormatText(matchers[2], AfterFirst(lastOp))
                  ELSE DefaultText(Upper(lastOp.method), lastOp.event)
           /\ lastOp.winner = IF SecondGivesText(lastOp) THEN 2 ELSE 0

\* The second matcher would have matched the event as logged, but the key
\* it needs was removed by the first: the default text is used
C21_Witness ==
    /\ FirstDeclines(lastOp)
    /\ PredicateHolds(2, lastOp)
    /\ ~SecondMatches(lastOp)
    /\ lastOp.invoked = <<1>>
    /\ lastOp.log_msg = DefaultText("INFO", "executing")
    /\ lastOp.kwargs = << <<K("x"), "1">>, <<K("command"), "c">> >>
    /\ lastOp.context_yaml = << <<YamlIndent, K("command"), "c">> >>

----------------------------------------------------------------------------
(* Properties of the live buffer and its display *)

\* The display of the first n buffered pairs: for each pair in order, the
\* message line and then its context lines behind two more spaces
RECURSIVE LinesUpTo(_, _)
LinesUpTo(msgs, n) ==
    IF n = 0
    THEN << >>
    ELSE LinesUpTo(msgs, n - 1)
             \o <<msgs[n][1]>>
             \o [i \in 1..Len(msgs[n][2]) |-> <<"  ", msgs[n][2][i]>>]

\* C22: between the entry and the exit of a live session the buffer only
\* grows, by the (text, context) pair of each buffered call appended at the
\* end, so it holds the buffered messages in the order logged; after each
\* buffered call the live display shows every buffered pair in that order,
\* the message line followed by its context lines indented.
C22_BufferInOrder ==
    [][ /\ lastOp'.op \notin {"open", "close"}
           => \/ liveMessages' = liveMessages
              \/ /\ lastOp'.op = "log"
                 /\ lastOp'.sink = "buffered"
        /\ (lastOp'.op = "log" /\ lastOp'.sink = "buffered")
           => /\ liveMessages' = Append(liveMessages, Rendered(lastOp'))
              /\ liveContext'.owner = liveContext.owner
              /\ liveContext'.shown = LinesUpTo(liveMessages', Len(liveMessages'))
      ]_vars

\* Two messages are buffered, the first with a context line, and the
\* display shows the three lines in order
C22_Witness ==
    /\ lastOp.op = "log"
    /\ lastOp.sink = "buffered"
    /\ Len(liveMessages) = 2
    /\ liveMessages[1] = <<DefaultText("INFO", "executing"),
                           << <<YamlIndent, K("x"), "1">> >> >>
    /\ liveMessages[2] = <<DefaultText("INFO", "executing"),
                           << <<YamlIndent, K("command"), "c">> >> >>
    /\ Len(liveContext.shown) = 4
    /\ liveContext.shown[2] = <<"  ", <<YamlIndent, K("x"), "1">> >>

----------------------------------------------------------------------------
(* Properties of the entry of a live session *)

\* C23: live_logging entered at verbosity 0 leaves the live buffer empty
\* whatever it held, sets the live context to a new display that shows the
\* status message, and yields a handle in live mode; every info, debug and
\* warning call through a handle in live mode carries the live flag.
C23_EntryAtZero ==
    [][ /\ (lastOp'.op = "open" /\ verbosity = 0)
           => /\ liveMessages' = << >>
              /\ liveContext' # None
              /\ liveContext'.owner = Len(sessions')
              /\ liveContext'.shown = << <<"status", lastOp'.event>> >>
              /\ Len(sessions') = Len(sessions) + 1
              /\ sessions'[Len(sessions')].is_live_mode
              /\ out' = out
        /\ ( /\ lastOp'.op = "log"
             /\ lastOp'.handle = "live"
             /\ lastOp'.method \in {"info", "debug", "warning"} )
           => lastOp'.tagged
      ]_vars

\* A second scope is entered at verbosity 0 while the buffer of the first
\* holds two messages: the buffer is emptied
C23_Witness ==
    /\ lastOp.op = "open"
    /\ lastOp.entry0
    /\ lastOp.arg = 2
    /\ verbosity = 0
    /\ liveMessages = << >>
    /\ liveContext = [owner |-> 2,
                      shown |-> << <<"status", "Processing...">> >>]

\* ---------------------------------------------------------------------
\* C24: a matcher that raises

\* Matcher i raises on the event as logged: in its predicate, or in its
\* formatter once its predicate holds
RaisesOn(i, op) ==
    \/ matchers[i].kind = "base"
    \/ /\ matchers[i].kind = "partial"
       /\ PredicateHolds(i, op)

\* Matcher i ends the loop with a text
EndsLoop(i, op) ==
    /\ matchers[i].kind # "base"
    /\ PredicateHolds(i, op)
    /\ GivesText(i, op)

\* Matcher i is the one whose exception leaves the renderer: it raises and
\* no matcher before it raised or ended the loop
Raiser(i, op) ==
    /\ i \in 1..Len(matchers)
    /\ RaisesOn(i, op)
    /\ \A j \in 1..(i - 1) : ~RaisesOn(j, op) /\ ~EndsLoop(j, op)

\* C24: when the predicate or the formatter of a matcher raises while an
\* event is rendered, the exception propagates to the caller of the log
\* call: no later matcher is consulted, no default text is produced,
\* nothing is printed for the event and nothing is appended to the live
\* buffer.
C24_MatcherRaisePropagates ==
    [][ \A i \in 1..Len(matchers) :
          (/\ lastOp'.op = "log"
           /\ lastOp'.sink # "dropped"
           /\ Raiser(i, lastOp'))
          => /\ lastOp'.raised
             /\ lastOp'.propagated
             /\ lastOp'.sink = "raised"
             /\ lastOp'.consulted = [j \in 1..i |-> j]
             /\ lastOp'.winner = 0
             /\ lastOp'.log_msg = NoText
             /\ out' = out
             /\ liveMessages' = liveMessages
             /\ liveContext' = liveContext ]_vars

\* A formatter raised on a tagged call inside a live session: a later
\* matcher that would have matched the event was not consulted
C24_Witness ==
    /\ lastOp.op = "log"
    /\ lastOp.raised
    /\ lastOp.propagated
    /\ lastOp.tagged
    /\ liveContext # None
    /\ verbosity = 0
    /\ matchers = <<Partial, Tool>>
    /\ lastOp.invoked = <<1>>
    /\ lastOp.consulted = <<1>>
    /\ Matches(Tool, Upper(lastOp.method), lastOp.event, lastOp.kwargs)
    /\ liveMessages = << >>
    /\ out = << >>

\* ---------------------------------------------------------------------
\* C25: one prefix is removed, once

\* The key as the statement displays it: the first of verbose, debug,
\* perf, security the key starts with is removed once
DisplayedKey(key) ==
    IF startswith(key, "_verbose_") THEN Tail(key)
    ELSE IF startswith(key, "_debug_") THEN Tail(key)
    ELSE IF startswith(key, "_perf_") THEN Tail(key)
    ELSE IF startswith(key, "_security_") THEN Tail(key)
    ELSE key

\* The empty-string key
EmptyKey == << >>

\* C25: prefix stripping removes at most one prefix per key: the keys of
\* the result are the keys of the input with the first matching prefix (in
\* the order verbose, debug, perf, security) removed once, a key that
\* starts with no prefix is unchanged, and a key that is exactly
\* `_verbose_` becomes the empty-string key, which is kept with the
\* field's value.
C25_StripOnePrefix ==
    lastOp.op = "strip"
        => /\ Keys(lastOp.result) = { DisplayedKey(p[1]) : p \in Range(lastOp.kwargs) }
           /\ \A p \in Range(lastOp.kwargs) :
                  /\ ~Prefixed(p[1]) => p[1] \in Keys(lastOp.result)
                  /\ DoublePrefixed(p[1]) => Tail(p[1]) \in Keys(lastOp.result)
                  /\ p[1] = K("_verbose_")
                        => /\ Has(lastOp.result, EmptyKey)
                           /\ Get(lastOp.result, EmptyKey) = p[2]

\* A key with two prefixes in a row keeps the second, next to a field named
\* exactly `_verbose_` that is kept under the empty key
C25_Witness ==
    /\ lastOp.op = "strip"
    /\ lastOp.kwargs = << << <<"_verbose_", "_debug_", "x">>, "1">>,
                          <<K("_verbose_"), "2">> >>
    /\ lastOp.result = << <<PK("_debug_", "x"), "1">>, <<EmptyKey, "2">> >>

\* ---------------------------------------------------------------------
\* C26: the buffer and the live context

\* C26: in every state reachable by configure, open-session, close-session
\* and log operations, nested sessions and reconfiguration inside a scope
\* included, the live buffer is empty whenever no live context is set.
C26_BufferOnlyWithContext ==
    liveContext = None => liveMessages = << >>

\* An inner scope that had buffered a message exits while the outer scope
\* is still open: context and buffer are cleared together
C26_Witness ==
    /\ lastOp.op = "close"
    /\ lastOp.entry0
    /\ lastOp.arg >= 1
    /\ Len(sessions) = 1
    /\ sessions[1].is_live_mode
    /\ liveContext = None
    /\ liveMessages = << >>

\* ---------------------------------------------------------------------
\* C27: a live session opened inside another

\* The first scope, entered at verbosity 0, is the only one open and no
\* live context is set: a scope opened inside it has exited
Orphaned ==
    /\ Len(sessions) = 1
    /\ sessions[1].is_live_mode
    /\ liveContext = None

\* C27: when a second live session is opened at verbosity 0 while a first
\* one is still open, the second takes over the single live context and
\* the buffer is reset; when the second session exits, the live context
\* becomes none although the first scope is still open, so every later
\* info or warning call through the first session's handle is printed
\* directly and stays in the permanent output after the first scope exits.
C27_NestedLastWriterWins ==
    [][ /\ ( /\ lastOp'.op = "open"
             /\ lastOp'.entry0
             /\ Len(sessions) = 1
             /\ liveContext # None )
          => /\ liveContext'.owner = 2
             /\ liveContext.owner = 1
             /\ liveContext'.shown = << <<"status", lastOp'.event>> >>
             /\ liveMessages' = << >>
        /\ ( /\ lastOp'.op = "close"
             /\ lastOp'.entry0
             /\ Len(sessions) = 2
             /\ sessions[1].is_live_mode )
          => /\ liveContext' = None
             /\ liveMessages' = << >>
             /\ sessions' = <<sessions[1]>>
        /\ ( /\ Orphaned
             /\ lastOp'.op = "log"
             /\ lastOp'.handle = "live"
             /\ lastOp'.method \in {"info", "warning"} )
          => /\ lastOp'.tagged
             /\ lastOp'.sink = "printed"
             /\ out' = Append(out, <<lastOp'.log_msg, lastOp'.context_yaml>>)
             /\ liveMessages' = << >>
             /\ liveContext' = None
        /\ ( Orphaned /\ lastOp'.op = "close" )
          => /\ sessions' = << >>
             /\ out' = out ]_vars

\* After the inner scope's exit a tagged info call through the first
\* scope's handle went to the permanent output at verbosity 0
C27_Witness ==
    /\ Orphaned
    /\ sessions[1].nested
    /\ verbosity = 0
    /\ lastOp.op = "log"
    /\ lastOp.handle = "live"
    /\ lastOp.method = "info"
    /\ lastOp.tagged
    /\ lastOp.sink = "printed"
    /\ out # << >>
    /\ out[Len(out)] = <<lastOp.log_msg, lastOp.context_yaml>>

\* ---------------------------------------------------------------------
\* C28: verbosity at the call, verbosity at entry

\* C28: the sink decision uses the verbosity at the time of each log call
\* while the exit cleanup is fixed by the verbosity at session entry.  In
\* a session opened at verbosity 0, once the verbosity is 1 or 2 every
\* call through the handle that passes the level filter is printed
\* directly, still tagged where the handle tags, and stays in the output;
\* the scope exit still resets the live context and empties the buffer.
\* A session opened at another verbosity never buffers through its handle
\* and its exit clears nothing, whatever the verbosity is then.
C28_CallTimeAndEntryTime ==
    [][ /\ ( /\ lastOp'.op = "log"
             /\ lastOp'.handle = "live"
             /\ verbosity \in 1..2
             /\ lastOp'.sink # "dropped" )
          => /\ lastOp'.tagged <=> lastOp'.method \in {"info", "debug", "warning"}
             /\ lastOp'.sink = "printed"
             /\ out' = Append(out, <<lastOp'.log_msg, lastOp'.context_yaml>>)
             /\ UNCHANGED <<liveContext, liveMessages>>
        /\ ( /\ lastOp'.op = "close"
             /\ lastOp'.entry0
             /\ verbosity \in 1..2 )
          => /\ liveContext' = None
             /\ liveMessages' = << >>
        /\ ( /\ lastOp'.op = "log"
             /\ lastOp'.handle = "plain"
             /\ lastOp'.sink # "dropped" )
          => /\ ~lastOp'.tagged
             /\ lastOp'.sink = "printed"
             /\ out' = Append(out, <<lastOp'.log_msg, lastOp'.context_yaml>>)
             /\ UNCHANGED <<liveContext, liveMessages>>
        /\ ( lastOp'.op = "close" /\ ~lastOp'.entry0 )
          => UNCHANGED <<liveContext, liveMessages>>
        /\ SubSeq(out', 1, Len(out)) = out ]_vars

\* In a scope entered at verbosity 0 whose buffer holds a message, a
\* tagged call made after the verbosity became 2 was printed directly: the
\* live context is still set and the buffer did not grow
C28_Witness ==
    /\ lastOp.op = "log"
    /\ lastOp.handle = "live"
    /\ lastOp.tagged
    /\ lastOp.sink = "printed"
    /\ verbosity = 2
    /\ Len(sessions) = 1
    /\ liveContext # None
    /\ Len(liveMessages) = 1
    /\ out = << <<lastOp.log_msg, lastOp.context_yaml>> >>

\* ---------------------------------------------------------------------
\* C29: what configure_logging leaves alone

\* C29: the configuration entry point changes only the verbosity level and
\* the matcher registry (and the logging framework setup): it leaves the
\* live context and the live buffer unchanged, so calling it while a live
\* session is open neither closes the session nor discards the messages
\* already buffered.
C29_ConfigureFrame ==
    [][ lastOp'.op = "configure"
          => /\ liveContext' = liveContext
             /\ liveMessages' = liveMessages
             /\ sessions' = sessions
             /\ out' = out ]_vars

\* Reconfigured to verbosity 1 inside an open live session whose buffer
\* holds a message: session, display and buffer are as before
C29_Witness ==
    /\ lastOp.op = "configure"
    /\ lastOp.arg = 1
    /\ verbosity = 1
    /\ Len(sessions) = 1
    /\ sessions[1].is_live_mode
    /\ liveContext # None
    /\ liveContext.owner = 1
    /\ Len(liveMessages) = 1
    /\ liveContext.shown = DisplayLines(liveMessages)

\* ---------------------------------------------------------------------
\* C30: displayed keys that collide

\* The positions of the input's fields displayed under key k
DisplayedAs(d, k) == { i \in 1..Len(d) : DisplayedKey(d[i][1]) = k }

\* The last of a non-empty set of positions
Last(positions) == CHOOSE i \in positions : \A j \in positions : j <= i

\* C30: prefix stripping does not keep fields apart when displayed keys
\* collide: if two input keys strip to the same displayed key, the result
\* holds a single entry for that key whose value is that of the colliding
\* field that comes last in the input's order, so the result can have
\* fewer fields than the input.
C30_StripCollisions ==
    lastOp.op = "strip"
        => LET d == lastOp.kwargs
               r == lastOp.result
           IN  /\ IsDict(r)
               /\ \A i \in 1..Len(d) :
                      LET k == DisplayedKey(d[i][1])
                      IN  /\ Has(r, k)
                          /\ Get(r, k) = d[Last(DisplayedAs(d, k))][2]
               /\ Len(r) = Cardinality({ DisplayedKey(d[i][1]) : i \in 1..Len(d) })
               /\ (\E i, j \in 1..Len(d) :
                       i # j /\ DisplayedKey(d[i][1]) = DisplayedKey(d[j][1]))
                      => Len(r) < Len(d)

\* `_verbose_x` and `_perf_x` are both displayed as `x`: one entry is
\* left, with the value of the later field
C30_Witness ==
    /\ lastOp.op = "strip"
    /\ lastOp.kwargs = << <<PK("_verbose_", "x"), "1">>,
                          <<PK("_perf_", "x"), "2">> >>
    /\ lastOp.result = << <<K("x"), "2">> >>

====
